---- MODULE Spec2Model ----
(***************************************************************************)
(* The grocery backend of src/server.js: an express application whose      *)
(* routes each hand one parameterized SQL statement to a sqlite3 database  *)
(* (db.run / db.all / db.get) and answer from the statement's callback.    *)
(*                                                                         *)
(* A request takes two steps: the route handler reads the request and      *)
(* queues its statement; the database runs the statement (atomically,      *)
(* against the four tables) and the statement's callback sends the         *)
(* response.  Steps of different connections interleave freely.            *)
(***************************************************************************)
EXTENDS Integers, Sequences, FiniteSets, TLC

VARIABLES categories, products, orders, status, sqlite_sequence, clock, conn, response,
          requests

vars == <<categories, products, orders, status, sqlite_sequence, clock, conn, response,
         requests>>

tables == <<categories, products, orders, status>>

(***************************************************************************)
(* Bounds of the model.                                                    *)
(***************************************************************************)
\* connections whose requests may be in flight at the same time
Connections == 2
\* requests the server accepts in a run
MaxRequests == 3
\* seconds CURRENT_TIMESTAMP advances over
MaxClock == 1

Conns == 1..Connections

(***************************************************************************)
(* Values.  SQL values are NULL, TEXT and INTEGER; JavaScript values of a  *)
(* request are undefined, strings, arrays and objects.                     *)
(***************************************************************************)
Null == [t |-> "null"]
Text(s) == [t |-> "text", v |-> s]
Integer(n) == [t |-> "integer", v |-> n]

Undefined == [t |-> "undefined"]
Str(s) == [t |-> "string", v |-> s]
Arr(s) == [t |-> "array", v |-> s]
Obj(k, s) == [t |-> "object", k |-> k, v |-> s]

\* the decimal strings the model's inputs use, with their values
Numeral == ("1" :> 1) @@ ("2" :> 2) @@ ("3" :> 3) @@ ("4" :> 4) @@ ("40" :> 40)

\* node-sqlite3 binding of a JavaScript parameter: undefined is left unbound
\* (NULL), a string is bound as TEXT
Bind(x) == IF x.t = "string" THEN Text(x.v) ELSE Null

\* a column of INTEGER affinity stores well-formed numeric text as an integer,
\* and an integer column compared with a text parameter converts the parameter
IntegerAffinity(x) ==
    IF x.t = "text" /\ x.v \in DOMAIN Numeral THEN Integer(Numeral[x.v]) ELSE x

\* JSON.stringify of an order's items / details: undefined stays undefined
JSONstringify(x) ==
    CASE x.t = "undefined" -> Undefined
      [] x.t = "array" ->
           Str("[" \o (IF Len(x.v) = 0 THEN "" ELSE "\"" \o x.v[1] \o "\"") \o "]")
      [] x.t = "object" -> Str("{\"" \o x.k \o "\":\"" \o x.v \o "\"}")
      [] OTHER -> Str("\"" \o x.v \o "\"")

BACKEND_URL == "https://velan-grocery-shop-backend.onrender.com"

(***************************************************************************)
(* Inputs of the requests.                                                 *)
(***************************************************************************)
CategoryNames == {Str("Dairy"), Str("Fruits"), Undefined}
Files == {Undefined, [t |-> "file", filename |-> "1700000000000.png"]}
ProductNames == {Str("Milk"), Str("Curd")}
ProductCategories == {Str("Dairy"), Str("dairy")}
Descriptions == {Str("fresh")}
Prices == {Str("40")}
QueryCategories == {Undefined, Str(""), Str("Dairy"), Str("dairy")}
IdParams == {"1", "2", "x"}
CategoryNameParams == {"Dairy", "Fruits"}
ProductNameParams == {"Milk", "Curd"}
OrderItems == {Arr(<<"milk">>), Undefined}
OrderDetails == {Obj("name", "raj")}
StatusValues == {Str("on leave"), Str("none"), Undefined}

(***************************************************************************)
(* The state after construction: the four tables created empty             *)
(* (CREATE TABLE IF NOT EXISTS on a new grocery.sqlite), no request yet.   *)
(***************************************************************************)
\* what a statement hands its callback: err, this.lastID, the rows of db.all
\* (unordered, or listed by ORDER BY), the row of db.get
NoResult == [err |-> Null, lastID |-> 0, rows |-> {}, list |-> <<>>, row |-> Undefined]

\* a connection with no request in flight
Idle == [phase |-> "idle", route |-> "", req |-> <<>>, params |-> <<>>, image |-> Null]

\* the request the server last answered (route, inputs), the err its callback
\* got and the responses it sent: nothing yet
NoResponse == [route |-> "", req |-> <<>>, err |-> Null, sent |-> <<>>]

Init ==
    /\ categories = {}
    /\ products = {}
    /\ orders = {}
    /\ status = {}
    /\ sqlite_sequence = [categories |-> 0, products |-> 0, orders |-> 0]
    /\ clock = 0
    /\ conn = [c \in Conns |-> Idle]
    /\ response = NoResponse
    /\ requests = 0

(***************************************************************************)
(* The store.  Each operator is one SQL statement of the source run        *)
(* against the current tables; it yields the set of outcomes the database  *)
(* may produce: the tables after the statement and what the callback gets  *)
(* (err, this.lastID, the rows).                                           *)
(***************************************************************************)
Same == [categories |-> categories, products |-> products, orders |-> orders,
         status |-> status, seq |-> sqlite_sequence, result |-> NoResult]

Failed(msg) == [Same EXCEPT !.result.err = Text(msg)]

\* faulty variant: the name column without its UNIQUE constraint
UniqueViolationNone(name) == FALSE

\* categories.name is declared TEXT UNIQUE: NULLs are distinct from each other
UniqueViolation(name) == name # Null /\ \E r \in categories : r.name = name

\* faulty variant: INSERT OR REPLACE: a row of the same name gives way to the new one
InsertOrReplaceCategory(name, image) ==
    LET id == sqlite_sequence.categories + 1 IN
    {[Same EXCEPT !.categories = {r \in categories : r.name # name} \cup
                       {[id |-> id, name |-> name, image |-> image]},
                  !.seq.categories = id,
                  !.result.lastID = id]}

\* INSERT INTO categories (name, image) VALUES (?, ?)
InsertCategory(name, image) ==
    IF UniqueViolation(name)
    THEN {Failed("SQLITE_CONSTRAINT: UNIQUE constraint failed: categories.name")}
    ELSE LET id == sqlite_sequence.categories + 1 IN
         {[Same EXCEPT !.categories = categories \cup
                            {[id |-> id, name |-> name, image |-> image]},
                       !.seq.categories = id,
                       !.result.lastID = id]}

\* SELECT * FROM categories
SelectCategories == {[Same EXCEPT !.result.rows = categories]}

\* faulty variant: the id parameter compared as the text it arrives as
DeleteCategoryByIdAsText(id) ==
    {[Same EXCEPT !.categories = {r \in categories : Integer(r.id) # id}]}

\* DELETE FROM categories WHERE id=?
DeleteCategoryById(id) ==
    {[Same EXCEPT !.categories =
          {r \in categories : Integer(r.id) # IntegerAffinity(id)}]}

\* faulty variant: deleting a category also deletes the products filed under it
DeleteCategoryByNameCascade(name) ==
    {[Same EXCEPT !.categories = {r \in categories : r.name # name},
                  !.products = {r \in products : r.category # name}]}

\* DELETE FROM categories WHERE name=?
DeleteCategoryByName(name) ==
    {[Same EXCEPT !.categories = {r \in categories : r.name # name}]}

\* faulty variant: the WHERE clause is lost
SelectProductsUnfiltered(params) == {[Same EXCEPT !.result.rows = products]}

\* SELECT * FROM products [WHERE category = ?]
SelectProducts(params) ==
    {[Same EXCEPT !.result.rows =
          IF params = <<>> THEN products
          ELSE {r \in products : r.category = params[1]}]}

\* INSERT INTO products (name, description, price, image, category) VALUES (?, ?, ?, ?, ?)
InsertProduct(name, description, price, image, category) ==
    LET id == sqlite_sequence.products + 1 IN
    {[Same EXCEPT !.products = products \cup
                      {[id |-> id, name |-> name, description |-> description,
                        price |-> IntegerAffinity(price), image |-> image,
                        category |-> category]},
                  !.seq.products = id,
                  !.result.lastID = id]}

\* DELETE FROM products WHERE id=?
DeleteProductById(id) ==
    {[Same EXCEPT !.products =
          {r \in products : Integer(r.id) # IntegerAffinity(id)}]}

\* DELETE FROM products WHERE name=?
DeleteProductByName(name) ==
    {[Same EXCEPT !.products = {r \in products : r.name # name}]}

\* INSERT INTO orders (items, details) VALUES (?, ?); created_at defaults to
\* CURRENT_TIMESTAMP, the clock read to the second
InsertOrder(items, details) ==
    LET id == sqlite_sequence.orders + 1 IN
    {[Same EXCEPT !.orders = orders \cup
                      {[id |-> id, items |-> items, details |-> details,
                        created_at |-> clock]},
                  !.seq.orders = id,
                  !.result.lastID = id]}

\* the lists that hold every row of S once
Listings(S) ==
    {l \in [1..Cardinality(S) -> S] : \A i, j \in DOMAIN l : i # j => l[i] # l[j]}

\* SELECT * FROM orders ORDER BY created_at ASC: created_at is the only sort
\* key, so rows of one second come in an order the database is free to choose
SelectOrders ==
    {[Same EXCEPT !.result.list = l] :
        l \in {m \in Listings(orders) :
                 \A i, j \in DOMAIN m : i < j => m[i].created_at <= m[j].created_at}}

\* SELECT value FROM status WHERE key=?  (db.get: the first row, or undefined)
SelectStatus(key) ==
    LET found == {r \in status : r.key = key.v} IN
    IF found = {} THEN {Same}
    ELSE {[Same EXCEPT !.result.row = [value |-> r.value]] : r \in found}

\* faulty variant: ON CONFLICT(key) DO NOTHING: the first value stays
UpsertStatusDoNothing(value, update) ==
    IF \E r \in status : r.key = "leave"
    THEN {Same}
    ELSE {[Same EXCEPT !.status = status \cup {[key |-> "leave", value |-> value]}]}

\* faulty variant: a plain INSERT: a second row for the key violates the primary key
InsertStatus(value, update) ==
    IF \E r \in status : r.key = "leave"
    THEN {Failed("SQLITE_CONSTRAINT: UNIQUE constraint failed: status.key")}
    ELSE {[Same EXCEPT !.status = status \cup {[key |-> "leave", value |-> value]}]}

\* INSERT INTO status (key, value) VALUES ('leave', ?)
\*   ON CONFLICT(key) DO UPDATE SET value=?
UpsertStatus(value, update) ==
    IF \E r \in status : r.key = "leave"
    THEN {[Same EXCEPT !.status =
              {IF r.key = "leave" THEN [r EXCEPT !.value = update] ELSE r :
                 r \in status}]}
    ELSE {[Same EXCEPT !.status = status \cup {[key |-> "leave", value |-> value]}]}

\* the statement of a route, run with the parameters the handler bound
Execute(route, params) ==
    CASE route = "GET /categories" -> SelectCategories
      [] route = "POST /categories" -> InsertCategory(params[1], params[2])
      [] route = "DELETE /categories/:id" -> DeleteCategoryById(params[1])
      [] route = "DELETE /categories/by-name/:name" -> DeleteCategoryByName(params[1])
      [] route = "GET /products" -> SelectProducts(params)
      [] route = "POST /products" ->
           InsertProduct(params[1], params[2], params[3], params[4], params[5])
      [] route = "DELETE /products/:id" -> DeleteProductById(params[1])
      [] route = "DELETE /products/by-name/:name" -> DeleteProductByName(params[1])
      [] route = "GET /orders" -> SelectOrders
      [] route = "POST /orders" -> InsertOrder(params[1], params[2])
      [] route = "GET /status/leave" -> SelectStatus(params[1])
      [] route = "POST /status/leave" -> UpsertStatus(params[1], params[2])

(***************************************************************************)
(* Route handlers: read the request, bind the parameters, queue the        *)
(* statement.                                                              *)
(***************************************************************************)
\* connection c has no request in flight and the run may take one more
Free(c) == conn[c].phase = "idle" /\ requests < MaxRequests

Query(c, route, req, params, image) ==
    /\ requests' = requests + 1
    /\ conn' = [conn EXCEPT ![c] = [phase |-> "queued", route |-> route, req |-> req,
                                    params |-> params, image |-> image]]

\* the image URL of an uploaded file, null without an upload
ImageOf(file) ==
    IF file # Undefined THEN Text(BACKEND_URL \o "/uploads/" \o file.filename) ELSE Null

GetCategories(c) ==
    /\ Free(c)
    /\ Query(c, "GET /categories", <<>>, <<>>, Null)
    /\ UNCHANGED <<tables, sqlite_sequence, clock, response>>

PostCategories(c, name, file) ==
    /\ Free(c)
    /\ Query(c, "POST /categories", [name |-> name, file |-> file],
             <<Bind(name), ImageOf(file)>>, ImageOf(file))
    /\ UNCHANGED <<tables, sqlite_sequence, clock, response>>

DeleteCategoriesId(c, id) ==
    /\ Free(c)
    /\ Query(c, "DELETE /categories/:id", [id |-> id], <<Bind(Str(id))>>, Null)
    /\ UNCHANGED <<tables, sqlite_sequence, clock, response>>

DeleteCategoriesByName(c, name) ==
    /\ Free(c)
    /\ Query(c, "DELETE /categories/by-name/:name", [name |-> name],
             <<Bind(Str(name))>>, Null)
    /\ UNCHANGED <<tables, sqlite_sequence, clock, response>>

\* if (category) { sql += ' WHERE category = ?'; params.push(category); }
\* an absent parameter and the empty string are both falsy
ProductsParams(category) ==
    IF category # Undefined /\ category.v # "" THEN <<Bind(category)>> ELSE <<>>

GetProducts(c, category) ==
    /\ Free(c)
    /\ Query(c, "GET /products", [category |-> category], ProductsParams(category), Null)
    /\ UNCHANGED <<tables, sqlite_sequence, clock, response>>

PostProducts(c, name, description, price, category, file) ==
    /\ Free(c)
    /\ Query(c, "POST /products",
             [name |-> name, description |-> description, price |-> price,
              category |-> category, file |-> file],
             <<Bind(name), Bind(description), Bind(price), ImageOf(file), Bind(category)>>,
             ImageOf(file))
    /\ UNCHANGED <<tables, sqlite_sequence, clock, response>>

DeleteProductsId(c, id) ==
    /\ Free(c)
    /\ Query(c, "DELETE /products/:id", [id |-> id], <<Bind(Str(id))>>, Null)
    /\ UNCHANGED <<tables, sqlite_sequence, clock, response>>

DeleteProductsByName(c, name) ==
    /\ Free(c)
    /\ Query(c, "DELETE /products/by-name/:name", [name |-> name],
             <<Bind(Str(name))>>, Null)
    /\ UNCHANGED <<tables, sqlite_sequence, clock, response>>

GetOrders(c) ==
    /\ Free(c)
    /\ Query(c, "GET /orders", <<>>, <<>>, Null)
    /\ UNCHANGED <<tables, sqlite_sequence, clock, response>>

PostOrders(c, items, details) ==
    /\ Free(c)
    /\ Query(c, "POST /orders", [items |-> items, details |-> details],
             <<Bind(JSONstringify(items)), Bind(JSONstringify(details))>>, Null)
    /\ UNCHANGED <<tables, sqlite_sequence, clock, response>>

GetStatusLeave(c) ==
    /\ Free(c)
    /\ Query(c, "GET /status/leave", <<>>, <<Text("leave")>>, Null)
    /\ UNCHANGED <<tables, sqlite_sequence, clock, response>>

PostStatusLeave(c, value) ==
    /\ Free(c)
    /\ Query(c, "POST /status/leave", [status |-> value],
             <<Bind(value), Bind(value)>>, Null)
    /\ UNCHANGED <<tables, sqlite_sequence, clock, response>>

(***************************************************************************)
(* Callbacks: shape the response from (err, rows / this.lastID).  req is   *)
(* the connection's request, result what the statement handed back.        *)
(***************************************************************************)
Json(code, body) == [code |-> code, body |-> body]

\* faulty variant: the error branch without its return: the success response follows
Status500NoReturn(result, ok) ==
    IF result.err # Null THEN <<Json(500, [error |-> result.err.v]), ok>> ELSE <<ok>>

\* if (err) return res.status(500).json({ error: err.message }); res.json(ok)
Status500(result, ok) ==
    IF result.err # Null THEN <<Json(500, [error |-> result.err.v])>> ELSE <<ok>>

\* if (err) return res.json({ success: false, error: err.message }); res.json(ok)
SuccessFalse(result, ok) ==
    IF result.err # Null
    THEN <<Json(200, [success |-> FALSE, error |-> result.err.v])>>
    ELSE <<ok>>

GetCategoriesResponse(req, result) == Status500(result, Json(200, result.rows))

PostCategoriesResponse(req, result) ==
    SuccessFalse(result,
        Json(200, [success |-> TRUE, id |-> result.lastID, image |-> req.image]))

DeleteCategoriesIdResponse(req, result) ==
    Status500(result, Json(200, [success |-> TRUE]))

DeleteCategoriesByNameResponse(req, result) ==
    Status500(result, Json(200, [success |-> TRUE]))

GetProductsResponse(req, result) == Status500(result, Json(200, result.rows))

PostProductsResponse(req, result) ==
    SuccessFalse(result,
        Json(200, [success |-> TRUE, productId |-> result.lastID, image |-> req.image]))

DeleteProductsIdResponse(req, result) ==
    Status500(result, Json(200, [success |-> TRUE]))

DeleteProductsByNameResponse(req, result) ==
    Status500(result, Json(200, [success |-> TRUE]))

GetOrdersResponse(req, result) == Status500(result, Json(200, result.list))

PostOrdersResponse(req, result) ==
    Status500(result, Json(200, [success |-> TRUE, orderId |-> result.lastID]))

\* faulty variant: row && row.value: a stored NULL reads as the sentinel
GetStatusLeaveResponseFalsy(req, result) ==
    Status500(result,
        Json(200, [status |-> IF result.row # Undefined /\ result.row.value # Null
                              THEN result.row.value
                              ELSE Text("none")]))

\* res.json({ status: row ? row.value : 'none' })
GetStatusLeaveResponse(req, result) ==
    Status500(result,
        Json(200, [status |-> IF result.row # Undefined THEN result.row.value
                              ELSE Text("none")]))

PostStatusLeaveResponse(req, result) ==
    Status500(result, Json(200, [success |-> TRUE]))

\* the callback the handler of req.route passed with its statement
Callback(req, result) ==
    CASE req.route = "GET /categories" -> GetCategoriesResponse(req, result)
      [] req.route = "POST /categories" -> PostCategoriesResponse(req, result)
      [] req.route = "DELETE /categories/:id" -> DeleteCategoriesIdResponse(req, result)
      [] req.route = "DELETE /categories/by-name/:name" ->
           DeleteCategoriesByNameResponse(req, result)
      [] req.route = "GET /products" -> GetProductsResponse(req, result)
      [] req.route = "POST /products" -> PostProductsResponse(req, result)
      [] req.route = "DELETE /products/:id" -> DeleteProductsIdResponse(req, result)
      [] req.route = "DELETE /products/by-name/:name" ->
           DeleteProductsByNameResponse(req, result)
      [] req.route = "GET /orders" -> GetOrdersResponse(req, result)
      [] req.route = "POST /orders" -> PostOrdersResponse(req, result)
      [] req.route = "GET /status/leave" -> GetStatusLeaveResponse(req, result)
      [] req.route = "POST /status/leave" -> PostStatusLeaveResponse(req, result)

Respond(c, result) ==
    /\ response' = [route |-> conn[c].route, req |-> conn[c].req, err |-> result.err,
                    sent |-> Callback(conn[c], result)]
    /\ conn' = [conn EXCEPT ![c] = Idle]

(***************************************************************************)
(* The database runs the queued statement of a request of `route`, as one  *)
(* atomic step against the tables, and the statement's callback answers.   *)
(* The callback reads nothing but its own statement's result, so it is     *)
(* taken in the same step.                                                 *)
(***************************************************************************)
Complete(c, route) ==
    /\ conn[c].phase = "queued"
    /\ conn[c].route = route
    /\ \E out \in Execute(conn[c].route, conn[c].params) :
         /\ categories' = out.categories
         /\ products' = out.products
         /\ orders' = out.orders
         /\ status' = out.status
         /\ sqlite_sequence' = out.seq
         /\ Respond(c, out.result)
    /\ UNCHANGED <<clock, requests>>

GetCategoriesCallback(c) == Complete(c, "GET /categories")
PostCategoriesCallback(c) == Complete(c, "POST /categories")
DeleteCategoriesIdCallback(c) == Complete(c, "DELETE /categories/:id")
DeleteCategoriesByNameCallback(c) == Complete(c, "DELETE /categories/by-name/:name")
GetProductsCallback(c) == Complete(c, "GET /products")
PostProductsCallback(c) == Complete(c, "POST /products")
DeleteProductsIdCallback(c) == Complete(c, "DELETE /products/:id")
DeleteProductsByNameCallback(c) == Complete(c, "DELETE /products/by-name/:name")
GetOrdersCallback(c) == Complete(c, "GET /orders")
PostOrdersCallback(c) == Complete(c, "POST /orders")
GetStatusLeaveCallback(c) == Complete(c, "GET /status/leave")
PostStatusLeaveCallback(c) == Complete(c, "POST /status/leave")

\* GET /: answers at once, without the store
GetRoot(c) ==
    /\ Free(c)
    /\ response' = [route |-> "GET /", req |-> <<>>, err |-> Null,
                    sent |-> <<Json(200, [ok |-> TRUE, msg |-> "Backend running!",
                                          time |-> clock])>>]
    /\ requests' = requests + 1
    /\ UNCHANGED <<tables, sqlite_sequence, clock, conn>>

\* a second of wall-clock time passes
Tick ==
    /\ clock < MaxClock
    /\ clock' = clock + 1
    /\ UNCHANGED <<tables, sqlite_sequence, conn, response, requests>>

\* the store reports an error for a queued statement (the database file is
\* locked, unreadable or full): nothing is written and the callback gets err
StatementFails(c) ==
    /\ conn[c].phase = "queued"
    /\ Respond(c, [NoResult EXCEPT !.err = Text("SQLITE_IOERR: disk I/O error")])
    /\ UNCHANGED <<tables, sqlite_sequence, clock, requests>>

(***************************************************************************)
(* Specifications.  The routes of one resource, with every input of the    *)
(* sets above, make up the workload of that resource's specification; Spec *)
(* runs every route of the server against one store.                       *)
(***************************************************************************)
CategoryRoutes(names, files, ids, nameParams) ==
    \/ \E c \in Conns : GetCategories(c)
    \/ \E c \in Conns, name \in names, file \in files : PostCategories(c, name, file)
    \/ \E c \in Conns, id \in ids : DeleteCategoriesId(c, id)
    \/ \E c \in Conns, name \in nameParams : DeleteCategoriesByName(c, name)
    \/ \E c \in Conns : GetCategoriesCallback(c)
    \/ \E c \in Conns : PostCategoriesCallback(c)
    \/ \E c \in Conns : DeleteCategoriesIdCallback(c)
    \/ \E c \in Conns : DeleteCategoriesByNameCallback(c)

ProductRoutes(queries, names, cats, files, ids, nameParams) ==
    \/ \E c \in Conns, category \in queries : GetProducts(c, category)
    \/ \E c \in Conns, name \in names, description \in Descriptions,
          price \in Prices, category \in cats, file \in files :
            PostProducts(c, name, description, price, category, file)
    \/ \E c \in Conns, id \in ids : DeleteProductsId(c, id)
    \/ \E c \in Conns, name \in nameParams : DeleteProductsByName(c, name)
    \/ \E c \in Conns : GetProductsCallback(c)
    \/ \E c \in Conns : PostProductsCallback(c)
    \/ \E c \in Conns : DeleteProductsIdCallback(c)
    \/ \E c \in Conns : DeleteProductsByNameCallback(c)

OrderRoutes(items) ==
    \/ \E c \in Conns : GetOrders(c)
    \/ \E c \in Conns, i \in items, details \in OrderDetails : PostOrders(c, i, details)
    \/ \E c \in Conns : GetOrdersCallback(c)
    \/ \E c \in Conns : PostOrdersCallback(c)
    \/ Tick

StatusRoutes(values) ==
    \/ \E c \in Conns : GetStatusLeave(c)
    \/ \E c \in Conns, value \in values : PostStatusLeave(c, value)
    \/ \E c \in Conns : GetStatusLeaveCallback(c)
    \/ \E c \in Conns : PostStatusLeaveCallback(c)

NextCategories ==
    CategoryRoutes(CategoryNames, Files, IdParams, CategoryNameParams)

SpecCategories == Init /\ [][NextCategories]_vars

NextProducts ==
    ProductRoutes(QueryCategories, ProductNames, ProductCategories, Files,
                  IdParams, ProductNameParams)

SpecProducts == Init /\ [][NextProducts]_vars

\* the four delete routes, with the inserts that give them rows to delete
NextCatalog ==
    \/ CategoryRoutes({Str("Dairy"), Str("Fruits")}, {Undefined}, IdParams,
                      CategoryNameParams)
    \/ ProductRoutes({Undefined}, ProductNames, {Str("Dairy")}, {Undefined},
                     IdParams, ProductNameParams)

SpecCatalog == Init /\ [][NextCatalog]_vars

NextOrders == OrderRoutes(OrderItems)

SpecOrders == Init /\ [][NextOrders]_vars

NextStatus == StatusRoutes(StatusValues)

SpecStatus == Init /\ [][NextStatus]_vars

Next ==
    \/ CategoryRoutes({Str("Dairy")}, {Undefined}, {"1"}, {"Dairy"})
    \/ ProductRoutes({Str("Dairy")}, {Str("Milk")}, {Str("Dairy")}, {Undefined},
                     {"1"}, {"Milk"})
    \/ OrderRoutes({Arr(<<"milk">>)})
    \/ StatusRoutes({Str("on leave")})
    \/ \E c \in Conns : GetRoot(c)

Spec == Init /\ [][Next]_vars

NextFaulty == Next \/ \E c \in Conns : StatementFails(c)

SpecFaulty == Init /\ [][NextFaulty]_vars

(***************************************************************************)
(* Properties.                                                             *)
(***************************************************************************)
\* the step in which the statement of connection c's request of `route` runs
\* and its callback answers
Completing(c, route) ==
    /\ conn[c].phase = "queued"
    /\ conn[c].route = route
    /\ conn'[c].phase = "idle"

\* the server's last answer is to a request of `route` whose statement ran
\* without error
Answered(route) == response.route = route /\ response.err = Null

Success == <<Json(200, [success |-> TRUE])>>

\* C1: a GET /orders answers with every order, in the order the orders were
\* inserted (ascending id), also when several were inserted in one second.
C1_OrdersInInsertionOrder ==
    Answered("GET /orders") =>
        LET list == response.sent[1].body IN
        /\ {list[i] : i \in DOMAIN list} = orders
        /\ \A i, j \in DOMAIN list : i < j => list[i].id < list[j].id

\* C2: a POST /categories whose name is that of a row of the table is answered
\* with HTTP 200 and success false, and leaves the categories table as it was.
C2_DuplicateNameRejected ==
    [][\A c \in Conns :
          (/\ Completing(c, "POST /categories")
           /\ conn[c].req.name # Undefined
           /\ \E r \in categories : r.name = Text(conn[c].req.name.v))
          => /\ categories' = categories
             /\ Len(response'.sent) = 1
             /\ response'.sent[1].code = 200
             /\ response'.sent[1].body.success = FALSE]_vars

\* a duplicate name, sent without the image the first row has, was refused and
\* the first row is still the only one
C2_Witness ==
    /\ response.route = "POST /categories"
    /\ response.err # Null
    /\ response.req.name = Str("Dairy")
    /\ response.req.file = Undefined
    /\ \E r \in categories : categories = {r} /\ r.name = Text("Dairy") /\ r.image # Null

\* C3: the status table never holds more than one row for "leave"; a successful
\* POST /status/leave leaves exactly its value there, overwriting what was
\* there; nothing else changes the table; and a GET /status/leave answers with
\* the value in the table.
C3_UpsertOverwrites ==
    /\ [](/\ Cardinality({r \in status : r.key = "leave"}) <= 1
          /\ Answered("POST /status/leave") =>
                status = {[key |-> "leave", value |-> Bind(response.req.status)]}
          /\ (Answered("GET /status/leave") /\ status # {}) =>
                \A r \in status : response.sent[1].body.status = r.value)
    /\ [][status' # status => \E c \in Conns : Completing(c, "POST /status/leave")]_vars

\* a GET answered "on leave" with every request of the run spent
C3_Witness ==
    /\ Answered("GET /status/leave")
    /\ response.sent[1].body.status = Text("on leave")
    /\ status = {[key |-> "leave", value |-> Text("on leave")]}
    /\ requests = MaxRequests

\* C4: GET /status/leave answers "none" when the table has no row for "leave",
\* the stored value when it has one, and never writes the table.
C4_NoneIsASentinel ==
    /\ [](Answered("GET /status/leave") =>
            /\ Len(response.sent) = 1
            /\ response.sent[1].code = 200
            /\ response.sent[1].body.status =
                 IF \E r \in status : r.key = "leave"
                 THEN (CHOOSE r \in status : r.key = "leave").value
                 ELSE Text("none"))
    /\ [][\A c \in Conns : Completing(c, "GET /status/leave") => status' = status]_vars

\* "none" was answered from an empty table, which is still empty
C4_Witness ==
    /\ Answered("GET /status/leave")
    /\ response.sent[1].body.status = Text("none")
    /\ status = {}

\* C5: however POSTs and GETs of /status/leave interleave, every POST succeeds,
\* the table has one row for "leave" from the first POST on, holding the value
\* of one of the POSTs (that of the POST that ran last), and a GET that runs
\* once a row exists answers with a value of the table.
C5_UpsertAtomic ==
    /\ [](/\ response.route = "POST /status/leave" =>
                /\ response.sent = Success
                /\ \E r \in status : r.value = Bind(response.req.status)
          /\ Cardinality(status) <= 1
          /\ \A r \in status :
                r.key = "leave" /\ r.value \in {Bind(v) : v \in StatusValues})
    /\ [][/\ status # {} => Cardinality(status') = 1
          /\ \A c \in Conns : Completing(c, "POST /status/leave") =>
                Cardinality(status') = 1
          /\ \A c \in Conns : (Completing(c, "GET /status/leave") /\ status # {}) =>
                response'.sent[1].body.status \in {r.value : r \in status}]_vars

\* a POST has written its row and two POSTs of different values are in flight
C5_Witness ==
    /\ response.route = "POST /status/leave"
    /\ status # {}
    /\ \A c \in Conns : conn[c].phase = "queued" /\ conn[c].route = "POST /status/leave"
    /\ \E c, d \in Conns : conn[c].req.status # conn[d].req.status

\* C6 (as claimed): whenever the category parameter is present, the empty
\* string included, GET /products answers with exactly the rows of that category.
C6_FiltersWheneverPresent ==
    Answered("GET /products") =>
        response.sent[1].body =
            IF response.req.category = Undefined THEN products
            ELSE {r \in products : r.category = Text(response.req.category.v)}

\* C6 (amended): GET /products answers with exactly the rows whose category is
\* the parameter, compared as it is, when the parameter is present and not
\* empty, and with every row when it is absent or the empty string.
C6_FiltersWhenNonEmpty ==
    Answered("GET /products") =>
        /\ Len(response.sent) = 1
        /\ response.sent[1].code = 200
        /\ response.sent[1].body =
             IF response.req.category = Undefined \/ response.req.category = Str("")
             THEN products
             ELSE {r \in products : r.category = Text(response.req.category.v)}

\* "Dairy" was asked for with a "Dairy" and a "dairy" product in the table, and
\* one row was answered
C6_Witness ==
    /\ Answered("GET /products")
    /\ response.req.category = Str("Dairy")
    /\ \E r \in products : r.category = Text("Dairy")
    /\ \E r \in products : r.category = Text("dairy")
    /\ Cardinality(response.sent[1].body) = 1

\* the rows a delete by id must remove: those whose id is the number the
\* parameter writes
HasId(r, id) == id \in DOMAIN Numeral /\ r.id = Numeral[id]

\* C7: each delete route removes exactly the rows whose id (name) is the
\* parameter, touches no other row, and answers success, rows or no rows.
C7_DeletesExactlyTheMatches ==
    [][\A c \in Conns :
          /\ Completing(c, "DELETE /categories/:id") =>
                /\ categories' = {r \in categories : ~HasId(r, conn[c].req.id)}
                /\ response'.sent = Success
          /\ Completing(c, "DELETE /categories/by-name/:name") =>
                /\ categories' = {r \in categories : r.name # Text(conn[c].req.name)}
                /\ response'.sent = Success
          /\ Completing(c, "DELETE /products/:id") =>
                /\ products' = {r \in products : ~HasId(r, conn[c].req.id)}
                /\ response'.sent = Success
          /\ Completing(c, "DELETE /products/by-name/:name") =>
                /\ products' = {r \in products : r.name # Text(conn[c].req.name)}
                /\ response'.sent = Success]_vars

\* two categories were inserted and DELETE /categories/1 left the second
C7_Witness ==
    /\ Answered("DELETE /categories/:id")
    /\ response.req.id = "1"
    /\ sqlite_sequence.categories = 2
    /\ \E r \in categories : categories = {r} /\ r.id = 2

\* C8 (as claimed): no two rows of the categories table have the same name.
C8_NamesUnique ==
    \A r1, r2 \in categories : r1.name = r2.name => r1 = r2

\* C8 (amended): no two rows of the categories table have the same name, unless
\* the name is NULL (the row of a POST whose form had no name field).
C8_NamedRowsUnique ==
    \A r1, r2 \in categories : (r1.name = r2.name /\ r1.name # Null) => r1 = r2

\* two unnamed rows beside a named one
C8_Witness ==
    /\ Cardinality({r \in categories : r.name = Null}) = 2
    /\ \E r \in categories : r.name = Text("Dairy")

\* C9: when the store reports an error, the two insert routes of the catalog
\* answer 200 {success: false, error}, every other route 500 {error}, and
\* nothing else is sent.
C9_ErrorResponses ==
    response.err # Null =>
        response.sent =
            IF response.route \in {"POST /categories", "POST /products"}
            THEN <<Json(200, [success |-> FALSE, error |-> response.err.v])>>
            ELSE <<Json(500, [error |-> response.err.v])>>

\* the store failed an insert of an order, answered with 500
C9_Witness ==
    /\ response.err # Null
    /\ response.route = "POST /orders"
    /\ response.sent[1].code = 500

\* C10: a step changes at most one of the four tables; deleting a category
\* leaves the products as they are; an order, once inserted, stays as it is.
C10_OneTablePerRequest ==
    [][/\ Cardinality({i \in 1..4 : tables[i]' # tables[i]}) <= 1
       /\ \A c \in Conns :
             (Completing(c, "DELETE /categories/:id")
                \/ Completing(c, "DELETE /categories/by-name/:name"))
             => products' = products
       /\ orders \subseteq orders'
       /\ orders' # orders => \E c \in Conns : Completing(c, "POST /orders")]_vars

\* the category "Dairy" was deleted by name and a product filed under "Dairy"
\* is still there
C10_Witness ==
    /\ Answered("DELETE /categories/by-name/:name")
    /\ response.req.name = "Dairy"
    /\ sqlite_sequence.categories = 1
    /\ categories = {}
    /\ \E r \in products : r.category = Text("Dairy")

====
